---- MODULE Spec2Model ----
(***************************************************************************)
(* Retrieval core of brain-api-ed: the date-window resolver of             *)
(* answer_with_rag.py and the search / temporal-filter / rerank pipeline   *)
(* of semantic_search.py.                                                  *)
(*                                                                         *)
(* A datetime is a record [ord, sec]: ord is the proleptic Gregorian       *)
(* ordinal (datetime.toordinal()), sec the second of the day.  Python's    *)
(* None is the record with ord = 0, which is no datetime.  Sub-second      *)
(* precision is not modelled.                                              *)
(*                                                                         *)
(* Scores are kept exact as integers in units of 1/365000 (the divisor of  *)
(* the recency bonus), raw index values in units of 1/1000.                *)
(***************************************************************************)
EXTENDS Integers, Sequences, FiniteSets, TLC

VARIABLES
    now,        \* datetime.now(), the clock every call reads
    metric,     \* _CONF["metric"]
    resources,  \* "ok" when the index and metadata files exist, else "missing"
    backend,    \* "ok" when the embedding backend can be used, else "unavailable"
    client,     \* _BACKEND_CLIENT / _ST_MODEL: "none" until the first embedding
    loads,      \* how many times load_resources() has read the index and metadata
    index,      \* the rows the FAISS index holds for a query, best first
    pc,         \* "idle" between calls, "done" when a call has returned
    op,         \* the entry point that was called
    args,       \* its arguments
    hits,       \* the hit list it returned
    window,     \* the window the resolver returned
    raised      \* whether it raised instead of returning

vars ==
    <<now, metric, resources, backend, client, loads, index,
      pc, op, args, hits, window, raised>>

env == <<now, metric, resources, backend, index>>

proc == <<client, loads>>

(***************************************************************************)
(* datetime: calendar arithmetic used by both modules                      *)
(***************************************************************************)
SecondsPerDay == 86400

EndOfDay == 86399

None == [ord |-> 0, sec |-> 0]

IsNone(dt) == dt.ord = 0

DT(o, s) == [ord |-> o, sec |-> s]

IsLeap(y) == (y % 4 = 0) /\ ((y % 100 # 0) \/ (y % 400 = 0))

DaysInMonth(y, m) ==
    IF m = 2 THEN (IF IsLeap(y) THEN 29 ELSE 28)
    ELSE IF m \in {4, 6, 9, 11} THEN 30 ELSE 31

DaysBeforeYear(y) ==
    (y - 1) * 365 + ((y - 1) \div 4) - ((y - 1) \div 100) + ((y - 1) \div 400)

RECURSIVE DaysBeforeMonth(_, _)
DaysBeforeMonth(y, m) ==
    IF m <= 1 THEN 0 ELSE DaysBeforeMonth(y, m - 1) + DaysInMonth(y, m - 1)

\* datetime(y, m, d).toordinal()
Ymd2Ord(y, m, d) == DaysBeforeYear(y) + DaysBeforeMonth(y, m) + d

\* whether datetime(y, m, d) can be constructed
ValidYmd(y, m, d) ==
    /\ y \in 1..9999
    /\ m \in 1..12
    /\ d \in 1..DaysInMonth(y, m)

\* datetime.fromordinal(n).year
OrdYear(n) ==
    LET y0 == ((n * 400) \div 146097) + 1
    IN  IF DaysBeforeYear(y0) >= n THEN y0 - 1
        ELSE IF n > DaysBeforeYear(y0 + 1) THEN y0 + 1
        ELSE y0

\* datetime.fromordinal(n).month
OrdMonth(n) ==
    LET y   == OrdYear(n)
        doy == n - DaysBeforeYear(y)
    IN  CHOOSE m \in 1..12 :
            /\ DaysBeforeMonth(y, m) < doy
            /\ doy <= DaysBeforeMonth(y, m) + DaysInMonth(y, m)

\* datetime.fromordinal(n).day
OrdDay(n) ==
    LET y == OrdYear(n)
    IN  n - DaysBeforeYear(y) - DaysBeforeMonth(y, OrdMonth(n))

\* datetime.weekday(): Monday = 0 .. Sunday = 6
Weekday(dt) == (dt.ord + 6) % 7

\* datetime.max
DatetimeMax == DT(Ymd2Ord(9999, 12, 31), EndOfDay)

\* a <= b on datetimes
DtLE(a, b) == (a.ord < b.ord) \/ (a.ord = b.ord /\ a.sec <= b.sec)

\* a < b on datetimes
DtLT(a, b) == (a.ord < b.ord) \/ (a.ord = b.ord /\ a.sec < b.sec)

\* dt - timedelta(days=n)
MinusDays(dt, n) == DT(dt.ord - n, dt.sec)

\* dt + timedelta(seconds=s), for 0 <= s
PlusSeconds(dt, s) ==
    LET t == dt.sec + (s % SecondsPerDay)
    IN  DT(dt.ord + (s \div SecondsPerDay) + (t \div SecondsPerDay), t % SecondsPerDay)

\* dt - timedelta(seconds=1)
MinusOneSecond(dt) ==
    IF dt.sec = 0 THEN DT(dt.ord - 1, EndOfDay) ELSE DT(dt.ord, dt.sec - 1)

(***************************************************************************)
(* Query text.  A query is a sequence of space-separated tokens:           *)
(*   word    an alphabetic word, text as typed (any case)                  *)
(*   year    a 4-digit number, a = the number                              *)
(*   q       "Q<a>" / "q<a>", a one digit                                  *)
(*   qy      "Q<a><sep><b>" written without a space, text = sep            *)
(*   date    "YYYY-MM-DD" digits, a-b-c, not necessarily a calendar date   *)
(***************************************************************************)
Word(w) == [kind |-> "word", text |-> w, a |-> 0, b |-> 0, c |-> 0]

Year(y) == [kind |-> "year", text |-> "", a |-> y, b |-> 0, c |-> 0]

Quarter(cap, n) == [kind |-> "q", text |-> cap, a |-> n, b |-> 0, c |-> 0]

QuarterYear(cap, n, sep, y) == [kind |-> "qy", text |-> cap \o sep, a |-> n, b |-> y, c |-> 0]

DateTok(y, m, d) == [kind |-> "date", text |-> "", a |-> y, b |-> m, c |-> d]

\* str.lower() on one word
LowerWord(w) ==
    CASE w = "Today"     -> "today"
      [] w = "Yesterday" -> "yesterday"
      [] w = "This"      -> "this"
      [] w = "Last"      -> "last"
      [] w = "From"      -> "from"
      [] w = "December"  -> "december"
      [] w = "Budget"    -> "budget"
      [] w = "Q"         -> "q"
      [] w = "Q-"        -> "q-"
      [] w = "Q/"        -> "q/"
      [] OTHER           -> w

\* q.lower(), answer_with_rag.py line 61
Lower(q) == [i \in DOMAIN q |-> [q[i] EXCEPT !.text = LowerWord(q[i].text)]]

\* lower-case words of the vocabulary that properly start with a keyword
ProperPrefixes == {<<"weekend", "week">>, <<"monthly", "month">>}

StartsWith(w, key) == w = key \/ <<w, key>> \in ProperPrefixes

\* "<key>" in qlow, for a one-word key
InText1(ql, key) ==
    \E i \in DOMAIN ql : ql[i].kind = "word" /\ StartsWith(ql[i].text, key)

\* "<k1> <k2>" in qlow, for a two-word key: k1 ends one token, k2 starts the next
InText2(ql, k1, k2) ==
    \E i \in DOMAIN ql :
        /\ i + 1 \in DOMAIN ql
        /\ ql[i].kind = "word" /\ ql[i].text = k1
        /\ ql[i + 1].kind = "word" /\ StartsWith(ql[i + 1].text, k2)

_MONTHS ==
    <<"january", "february", "march", "april", "may", "june",
      "july", "august", "september", "october", "november", "december">>

\* list.index(month_name) + 1
MonthNum(name) == CHOOSE i \in 1..12 : _MONTHS[i] = name

IsMonthWord(t) == t.kind = "word" /\ \E i \in 1..12 : _MONTHS[i] = t.text

\* the token starts with 20dd followed by a word boundary
Starts20dd(t) ==
    \/ t.kind = "year" /\ t.a \in 2000..2099
    \/ t.kind = "date" /\ t.a \in 2000..2099

\* positions where  \b<month>\s+20\d{2}\b  matches
MonthMatches(ql) ==
    {i \in DOMAIN ql : i + 1 \in DOMAIN ql /\ IsMonthWord(ql[i]) /\ Starts20dd(ql[i + 1])}

\* positions where _Q_PAT matches: "q<n> <year>" or the glued "q<n><sep><year>"
QMatches(ql) ==
    {i \in DOMAIN ql :
        \/ /\ ql[i].kind = "q" /\ ql[i].text = "q" /\ ql[i].a \in 1..4
           /\ i + 1 \in DOMAIN ql /\ Starts20dd(ql[i + 1])
        \/ /\ ql[i].kind = "qy" /\ ql[i].text \in {"q", "q-", "q/"}
           /\ ql[i].a \in 1..4 /\ ql[i].b \in 2000..2099}

\* positions where  \bfrom\s+(date)\s+to\s+(date)\b  matches
RangeMatches(ql) ==
    {i \in DOMAIN ql :
        /\ i + 3 \in DOMAIN ql
        /\ ql[i] = Word("from")
        /\ ql[i + 1].kind = "date"
        /\ ql[i + 2] = Word("to")
        /\ ql[i + 3].kind = "date"}

\* re.search returns the leftmost match
Leftmost(S) == CHOOSE i \in S : \A j \in S : i <= j

(***************************************************************************)
(* answer_with_rag.py: date-window resolution                              *)
(***************************************************************************)
Window(s, e) == [kind |-> "window", start |-> s, end |-> e]

NoWindow == [kind |-> "none", start |-> None, end |-> None]

Returned(w) == [raised |-> FALSE, win |-> w]

Raised == [raised |-> TRUE, win |-> NoWindow]

_week_bounds(dt) ==
    LET start == MinusDays(dt, Weekday(dt))
    IN  Window(start, PlusSeconds(start, 6 * SecondsPerDay + EndOfDay))

\* the month taken as 30 days long
_month_bounds_30_days(dt) ==
    LET y     == OrdYear(dt.ord)
        m     == OrdMonth(dt.ord)
        start == DT(Ymd2Ord(y, m, 1), 0)
    IN  Window(start, DT(start.ord + 29, EndOfDay))

_month_bounds(dt) ==
    LET y     == OrdYear(dt.ord)
        m     == OrdMonth(dt.ord)
        start == DT(Ymd2Ord(y, m, 1), 0)
    IN  IF m = 12
        THEN Window(start, MinusOneSecond(DT(Ymd2Ord(y + 1, 1, 1), 0)))
        ELSE Window(start, MinusOneSecond(DT(Ymd2Ord(y, m + 1, 1), 0)))

\* the quarter rule with the end of the fourth quarter at midnight
_quarter_bounds_q4_midnight(q, year) ==
    LET starts == <<1, 4, 7, 10>>
        start  == DT(Ymd2Ord(year, starts[q], 1), 0)
    IN  IF q < 4
        THEN Window(start, MinusOneSecond(DT(Ymd2Ord(year, starts[q + 1], 1), 0)))
        ELSE Window(start, DT(Ymd2Ord(year, 12, 31), 0))

_quarter_bounds(q, year) ==
    LET starts == <<1, 4, 7, 10>>
        start  == DT(Ymd2Ord(year, starts[q], 1), 0)
    IN  IF q < 4
        THEN Window(start, MinusOneSecond(DT(Ymd2Ord(year, starts[q + 1], 1), 0)))
        ELSE Window(start, DT(Ymd2Ord(year, 12, 31), EndOfDay))

\* rule 1a, lines 64-68
RuleToday(dt) == Window(DT(dt.ord, 0), DT(dt.ord, EndOfDay))

\* the yesterday rule with the start left at the time of day of the call
RuleYesterday_keeps_time(dt) ==
    LET y == MinusDays(dt, 1) IN Window(y, DT(y.ord, EndOfDay))

\* rule 1b, lines 69-73
RuleYesterday(dt) ==
    LET y == MinusDays(dt, 1) IN Window(DT(y.ord, 0), DT(y.ord, EndOfDay))

\* rule 3b, lines 85-87
RuleLastMonth(dt) ==
    LET first == Ymd2Ord(OrdYear(dt.ord), OrdMonth(dt.ord), 1)
    IN  _month_bounds(DT(first - 1, 0))

\* rule 4, lines 90-101
RuleMonthName(ql) ==
    LET i         == Leftmost(MonthMatches(ql))
        month_num == MonthNum(ql[i].text)
        year      == ql[i + 1].a
        start     == DT(Ymd2Ord(year, month_num, 1), 0)
    IN  IF month_num = 12
        THEN Window(start, MinusOneSecond(DT(Ymd2Ord(year + 1, 1, 1), 0)))
        ELSE Window(start, MinusOneSecond(DT(Ymd2Ord(year, month_num + 1, 1), 0)))

\* rule 5, lines 104-108
RuleQuarter(ql) ==
    LET i  == Leftmost(QMatches(ql))
        qn == ql[i].a
        yr == IF ql[i].kind = "qy" THEN ql[i].b ELSE ql[i + 1].a
    IN  _quarter_bounds(qn, yr)

\* the from/to rule with the end left at midnight
RuleRange_end_at_midnight(ql) ==
    LET i  == Leftmost(RangeMatches(ql))
        d1 == ql[i + 1]
        d2 == ql[i + 3]
    IN  IF ValidYmd(d1.a, d1.b, d1.c) /\ ValidYmd(d2.a, d2.b, d2.c)
        THEN Returned(Window(DT(Ymd2Ord(d1.a, d1.b, d1.c), 0),
                             DT(Ymd2Ord(d2.a, d2.b, d2.c), 0)))
        ELSE Raised

\* rule 6, lines 111-115: datetime.fromisoformat raises ValueError on a
\* date that is not in the calendar
RuleRange(ql) ==
    LET i  == Leftmost(RangeMatches(ql))
        d1 == ql[i + 1]
        d2 == ql[i + 3]
    IN  IF ValidYmd(d1.a, d1.b, d1.c) /\ ValidYmd(d2.a, d2.b, d2.c)
        THEN Returned(Window(DT(Ymd2Ord(d1.a, d1.b, d1.c), 0),
                             DT(Ymd2Ord(d2.a, d2.b, d2.c), EndOfDay)))
        ELSE Raised

\* the resolver with the quarter rule tried before the month-name rule
resolve_quarter_first(q, today) ==
    LET qlow == Lower(q)
    IN  IF InText1(qlow, "today") THEN Returned(RuleToday(today))
        ELSE IF InText1(qlow, "yesterday") THEN Returned(RuleYesterday(today))
        ELSE IF InText2(qlow, "this", "week") THEN Returned(_week_bounds(today))
        ELSE IF InText2(qlow, "last", "week") THEN Returned(_week_bounds(MinusDays(today, 7)))
        ELSE IF InText2(qlow, "this", "month") THEN Returned(_month_bounds(today))
        ELSE IF InText2(qlow, "last", "month") THEN Returned(RuleLastMonth(today))
        ELSE IF QMatches(qlow) # {} THEN Returned(RuleQuarter(qlow))
        ELSE IF MonthMatches(qlow) # {} THEN Returned(RuleMonthName(qlow))
        ELSE IF RangeMatches(qlow) # {} THEN RuleRange(qlow)
        ELSE Returned(NoWindow)

resolve_date_window_from_query(q, today) ==
    LET qlow == Lower(q)
    IN  IF InText1(qlow, "today") THEN Returned(RuleToday(today))
        ELSE IF InText1(qlow, "yesterday") THEN Returned(RuleYesterday(today))
        ELSE IF InText2(qlow, "this", "week") THEN Returned(_week_bounds(today))
        ELSE IF InText2(qlow, "last", "week") THEN Returned(_week_bounds(MinusDays(today, 7)))
        ELSE IF InText2(qlow, "this", "month") THEN Returned(_month_bounds(today))
        ELSE IF InText2(qlow, "last", "month") THEN Returned(RuleLastMonth(today))
        ELSE IF MonthMatches(qlow) # {} THEN Returned(RuleMonthName(qlow))
        ELSE IF QMatches(qlow) # {} THEN Returned(RuleQuarter(qlow))
        ELSE IF RangeMatches(qlow) # {} THEN RuleRange(qlow)
        ELSE Returned(NoWindow)

(***************************************************************************)
(* semantic_search.py: metadata and parsing                                *)
(*                                                                         *)
(* A date field of the metadata is a text:                                 *)
(*   absent    the key is missing, None or ""                              *)
(*   iso       "YYYY-MM-DD" or "YYYY-MM-DDTHH:MM:SS[Z]" (digits y-m-d,     *)
(*             not necessarily a calendar date)                            *)
(*   prefixed  "YYYY-MM-DD" followed by text fromisoformat rejects         *)
(*   junk      anything else                                               *)
(***************************************************************************)
Absent == [kind |-> "absent", y |-> 0, m |-> 0, d |-> 0, sec |-> 0]

Iso(y, m, d, s) == [kind |-> "iso", y |-> y, m |-> m, d |-> d, sec |-> s]

Prefixed(y, m, d) == [kind |-> "prefixed", y |-> y, m |-> m, d |-> d, sec |-> 0]

Junk == [kind |-> "junk", y |-> 0, m |-> 0, d |-> 0, sec |-> 0]

_parse_iso(s) ==
    IF s.kind = "absent" THEN None
    ELSE IF s.kind = "iso" /\ ValidYmd(s.y, s.m, s.d) THEN DT(Ymd2Ord(s.y, s.m, s.d), s.sec)
    ELSE IF s.kind = "prefixed" /\ ValidYmd(s.y, s.m, s.d) THEN DT(Ymd2Ord(s.y, s.m, s.d), 0)
    ELSE None

Meta(folder, tags, md, vf, vt) ==
    [folder |-> folder, tags |-> tags, meeting_date |-> md, valid_from |-> vf, valid_to |-> vt]

\* metadata.get(idx, {}) for an id the table does not have
EmptyMeta == Meta("", {}, Absent, Absent, Absent)

Hit(id, dist, meta) == [id |-> id, dist |-> dist, meta |-> meta]

\* the "no match" row FAISS pads its answer with
Sentinel == Hit(-1, 0, EmptyMeta)

\* str(meta.get("folder", "")).lower()
LowerFolder(f) ==
    CASE f = "Meetings"  -> "meetings"
      [] f = "Reminders" -> "reminders"
      [] OTHER           -> f

\* t.strip().lower() on a tag
StripLower(t) ==
    CASE t = "Budget"  -> "budget"
      [] t = " review" -> "review"
      [] t = " "       -> ""
      [] OTHER         -> t

\* the alphanumeric runs _TAG_RE finds in one lower-cased token
TokenRuns(t) ==
    CASE t.kind = "word" -> {t.text}
      [] t.kind = "year" -> {ToString(t.a)}
      [] t.kind = "q"    -> {"q" \o ToString(t.a)}
      [] t.kind = "qy"   -> IF t.text = "q"
                            THEN {"q" \o ToString(t.a) \o ToString(t.b)}
                            ELSE {"q" \o ToString(t.a), ToString(t.b)}
      [] t.kind = "date" -> {ToString(t.a), ToString(t.b), ToString(t.c)}

\* set(_query_tags(query))
_query_tags(query) ==
    LET ql == Lower(query)
    IN  {r \in UNION {TokenRuns(ql[i]) : i \in DOMAIN ql} : Len(r) >= 3}

(***************************************************************************)
(* semantic_search.py: core search                                         *)
(*                                                                         *)
(* ranked is what the FAISS index holds for the query being served, best   *)
(* match first, each row already joined with its metadata.                 *)
(***************************************************************************)
Max(a, b) == IF a >= b THEN a ELSE b

Min(a, b) == IF a <= b THEN a ELSE b

Take(s, n) == SubSeq(s, 1, Min(n, Len(s)))

\* index.search(qvec, n): n rows, padded with the sentinel
FaissSearch(ranked, n) ==
    [i \in 1..n |-> IF i <= Len(ranked) THEN ranked[i] ELSE Sentinel]

IsRealRow(h) == h.id # -1

\* search without the final out[:k]
search_untruncated(ranked, k) ==
    SelectSeq(FaissSearch(ranked, Max(k, 100)), IsRealRow)

search(ranked, k) ==
    LET out == SelectSeq(FaissSearch(ranked, Max(k, 100)), IsRealRow)
    IN  Take(out, k)

(***************************************************************************)
(* semantic_search.py: date-aware filtering                                *)
(***************************************************************************)
\* the overlap test with a strict second comparison
_overlap_strict(a_start, a_end, b_start, b_end) ==
    DtLE(a_start, b_end) /\ DtLT(b_start, a_end)

_overlap(a_start, a_end, b_start, b_end) ==
    DtLE(a_start, b_end) /\ DtLE(b_start, a_end)

\* the loop body with a missing valid_from read as datetime.min
Keeps_open_start(meta, start, end) ==
    LET md  == _parse_iso(meta.meeting_date)
        vf  == _parse_iso(meta.valid_from)
        pvt == _parse_iso(meta.valid_to)
        vt  == IF IsNone(pvt) THEN DatetimeMax ELSE pvt
    IN  IF ~IsNone(md) /\ DtLE(start, md) /\ DtLE(md, end)
        THEN TRUE
        ELSE _overlap(IF IsNone(vf) THEN DT(1, 0) ELSE vf, vt, start, end)

\* the loop body: whether one hit is appended to kept
Keeps(meta, start, end) ==
    LET md  == _parse_iso(meta.meeting_date)
        vf  == _parse_iso(meta.valid_from)
        pvt == _parse_iso(meta.valid_to)
        vt  == IF IsNone(pvt) THEN DatetimeMax ELSE pvt
    IN  IF ~IsNone(md) /\ DtLE(start, md) /\ DtLE(md, end)
        THEN TRUE
        ELSE ~IsNone(vf) /\ _overlap(vf, vt, start, end)

RECURSIVE filter_by_date_range(_, _, _)
filter_by_date_range(results, start, end) ==
    IF results = <<>> THEN <<>>
    ELSE LET h    == Head(results)
             rest == filter_by_date_range(Tail(results), start, end)
         IN  IF Keeps(h.meta, start, end) THEN <<h>> \o rest ELSE rest

(***************************************************************************)
(* semantic_search.py: reranking                                           *)
(***************************************************************************)
\* one score unit is 1/365000, the step of the recency bonus (line 222)
ScoreUnit == 365000

\* raw index values (dist) are kept in thousandths
DistUnit == 1000

\* 0.05 per overlapping tag, line 215
TagBonus == (5 * ScoreUnit) \div 100

\* 0.2 for the preferred folder, line 227
MeetingsBonus == (20 * ScoreUnit) \div 100

\* 0.15 for reminders, line 229
RemindersBonus == (15 * ScoreUnit) \div 100

\* 0.2 for a currently valid reminder, line 241
ValidBonus == (20 * ScoreUnit) \div 100

\* -0.4 for a reminder that is not currently valid, line 241
InvalidPenalty == 0 - ((40 * ScoreUnit) \div 100)

\* lines 206-209
Base(dist, conf_metric) ==
    IF conf_metric = "l2"
    THEN (ScoreUnit * DistUnit) \div (DistUnit + dist)
    ELSE (dist * ScoreUnit) \div DistUnit

\* the overlap counted as the query tokens the record lacks
TagOverlap_missing(meta, qtags) ==
    Cardinality(qtags \ {StripLower(t) : t \in {u \in meta.tags : u # ""}})

\* lines 212-215
TagOverlap(meta, qtags) ==
    Cardinality(qtags \cap {StripLower(t) : t \in {u \in meta.tags : u # ""}})

\* lines 218-222: mdate.toordinal() / 365000.0
MeetBonus(meta, prefer_recent) ==
    LET mdate == _parse_iso(meta.meeting_date)
    IN  IF prefer_recent /\ ~IsNone(mdate) THEN mdate.ord ELSE 0

\* lines 225-229
FolderBonus(meta, prefer_meetings) ==
    LET folder == LowerFolder(meta.folder)
    IN  (IF prefer_meetings /\ folder = "meetings" THEN MeetingsBonus ELSE 0)
        + (IF folder = "reminders" THEN RemindersBonus ELSE 0)

\* lines 236-240
ValidNow(meta, t) ==
    LET vfrom == _parse_iso(meta.valid_from)
        vto   == _parse_iso(meta.valid_to)
    IN  /\ ~(~IsNone(vfrom) /\ DtLT(t, vfrom))
        /\ ~(~IsNone(vto) /\ DtLT(vto, t))

\* lines 232-241
ValidityBonus(meta, t) ==
    IF LowerFolder(meta.folder) = "reminders"
    THEN (IF ValidNow(meta, t) THEN ValidBonus ELSE InvalidPenalty)
    ELSE 0

\* line 243
Score(h, qtags, prefer_meetings, prefer_recent, t, conf_metric) ==
    Base(h.dist, conf_metric)
    + TagBonus * TagOverlap(h.meta, qtags)
    + FolderBonus(h.meta, prefer_meetings)
    + MeetBonus(h.meta, prefer_recent)
    + ValidityBonus(h.meta, t)

\* an insertion that puts an element in front of the elements with its key
RECURSIVE InsertDesc_unstable(_, _)
InsertDesc_unstable(sorted, x) ==
    IF sorted = <<>> THEN <<x>>
    ELSE IF Head(sorted).score > x.score
         THEN <<Head(sorted)>> \o InsertDesc_unstable(Tail(sorted), x)
         ELSE <<x>> \o sorted

\* list.sort(key, reverse=True) is stable: an element goes behind every
\* element whose key is not smaller
RECURSIVE InsertDesc(_, _)
InsertDesc(sorted, x) ==
    IF sorted = <<>> THEN <<x>>
    ELSE IF Head(sorted).score >= x.score
         THEN <<Head(sorted)>> \o InsertDesc(Tail(sorted), x)
         ELSE <<x>> \o sorted

\* a sort that inserts the elements from the last to the first, so that
\* elements with equal keys come out in reverse order
RECURSIVE SortDesc_from_tail(_)
SortDesc_from_tail(rescored) ==
    IF rescored = <<>> THEN <<>>
    ELSE InsertDesc(SortDesc_from_tail(Tail(rescored)), Head(rescored))

RECURSIVE SortDesc(_)
SortDesc(rescored) ==
    IF rescored = <<>> THEN <<>>
    ELSE InsertDesc(SortDesc(SubSeq(rescored, 1, Len(rescored) - 1)),
                    rescored[Len(rescored)])

rerank(results, query, prefer_meetings, prefer_recent, t, conf_metric) ==
    LET qtags    == _query_tags(query)
        rescored == [i \in DOMAIN results |->
                        [score |-> Score(results[i], qtags, prefer_meetings,
                                         prefer_recent, t, conf_metric),
                         hit   |-> results[i]]]
        sorted   == SortDesc(rescored)
    IN  [i \in DOMAIN sorted |-> sorted[i].hit]

rerank_for_recency(results, query, t, conf_metric) ==
    rerank(results, query, FALSE, TRUE, t, conf_metric)

(***************************************************************************)
(* semantic_search.py: convenience entry points                            *)
(***************************************************************************)
search_meetings(ranked, query, k, t, conf_metric) ==
    LET pool == search(ranked, Max(k, 50))
    IN  Take(rerank(pool, query, TRUE, TRUE, t, conf_metric), k)

\* search_in_date_window falling back to the unfiltered pool
search_in_date_window_fallback(ranked, query, start, end, k, t, conf_metric) ==
    LET pool     == search(ranked, Max(k, 200))
        windowed == filter_by_date_range(pool, start, end)
    IN  IF windowed = <<>> THEN Take(rerank_for_recency(pool, query, t, conf_metric), k)
        ELSE Take(rerank_for_recency(windowed, query, t, conf_metric), k)

\* search_in_date_window reranking the fetched pool in place of the
\* filtered candidates
search_in_date_window_reranks_pool(ranked, query, start, end, k, t, conf_metric) ==
    LET pool     == search(ranked, Max(k, 200))
        windowed == filter_by_date_range(pool, start, end)
    IN  IF windowed = <<>> THEN <<>>
        ELSE Take(rerank_for_recency(pool, query, t, conf_metric), k)

search_in_date_window(ranked, query, start, end, k, t, conf_metric) ==
    LET pool     == search(ranked, Max(k, 200))
        windowed == filter_by_date_range(pool, start, end)
    IN  IF windowed = <<>> THEN <<>>
        ELSE Take(rerank_for_recency(windowed, query, t, conf_metric), k)

(***************************************************************************)
(* answer_with_rag.py: answer, up to the hits it hands to _synth_answer    *)
(***************************************************************************)
Outcome(r, w, h) == [raised |-> r, win |-> w, hits |-> h]

answer(ranked, question, k, restrict_to_meetings, t, conf_metric) ==
    LET r == resolve_date_window_from_query(question, t)
    IN  IF r.raised THEN Outcome(TRUE, NoWindow, <<>>)
        ELSE IF r.win.kind = "window"
        THEN Outcome(FALSE, r.win,
                     search_in_date_window(ranked, question, r.win.start, r.win.end,
                                           k, t, conf_metric))
        ELSE IF restrict_to_meetings
        THEN Outcome(FALSE, r.win, search_meetings(ranked, question, k, t, conf_metric))
        ELSE Outcome(FALSE, r.win, search(ranked, k))

(***************************************************************************)
(* Bounds and input sets                                                   *)
(***************************************************************************)
MaxIndex == 3

MaxK == 2

MaxPhrases == 2

MaxFilterLen == 2

MaxRerankLen == 3

MaxLoads == 2

Ks == 1..MaxK

Day(y, m, d) == DT(Ymd2Ord(y, m, d), 0)

DayEnd(y, m, d) == DT(Ymd2Ord(y, m, d), EndOfDay)

At(y, m, d, s) == DT(Ymd2Ord(y, m, d), s)

\* rows 1..n of an index, row i has id i; FAISS returns the best match
\* first: largest inner product, smallest l2 distance
RowsOf(f) == [i \in DOMAIN f |-> Hit(i, f[i][2], f[i][1])]

BestFirst(rows, conf_metric) ==
    \A i \in DOMAIN rows : \A j \in DOMAIN rows :
        i < j => IF conf_metric = "l2" THEN rows[i].dist <= rows[j].dist
                                       ELSE rows[i].dist >= rows[j].dist

Lists(S, n) == UNION {[1..l -> S] : l \in 0..n}

\* raw index values 0.46 and 0.825: both bases are whole score units under
\* either metric, and two exact scores tie only when the float scores do
Dists == {460, 825}

MeetingJan == Meta("meetings", {"Budget"}, Iso(2025, 1, 14, 0), Absent, Absent)

MeetingMar == Meta("Meetings", {}, Iso(2025, 3, 3, 32400), Absent, Absent)

ReminderJan == Meta("reminders", {" review"}, Absent, Iso(2025, 1, 1, 0), Iso(2025, 1, 31, 0))

ReminderDated == Meta("Reminders", {}, Iso(2025, 1, 15, 0), Absent, Absent)

IndexMetas == {MeetingJan, MeetingMar, ReminderJan, ReminderDated, EmptyMeta}

Indexes(conf_metric) ==
    {rows \in {RowsOf(f) : f \in Lists(IndexMetas \X Dists, MaxIndex)} :
        BestFirst(rows, conf_metric)}

Nows == {At(2025, 1, 15, 37800), Day(2025, 3, 10)}

QBudget == <<Word("Budget"), Word("review")>>

QHello == <<Word("hello")>>

SearchQueries == {QBudget, QHello}

Windows ==
    {Window(Day(2025, 1, 15), Day(2025, 2, 1)),
     Window(Day(2025, 2, 2), Day(2025, 2, 10)),
     Window(Day(2099, 1, 1), Day(2099, 1, 2))}

AnswerQueries ==
    SearchQueries \cup
    {<<Word("budget"), Word("this"), Word("week")>>,
     <<Word("budget"), Word("from"), DateTok(2025, 1, 1), Word("to"), DateTok(2025, 1, 31)>>,
     <<Word("review"), Word("from"), DateTok(2025, 2, 30), Word("to"), DateTok(2025, 13, 1)>>}

NoArgs ==
    [query |-> <<>>, k |-> 0, start |-> None, end |-> None, pool |-> <<>>,
     prefer_meetings |-> FALSE, prefer_recent |-> FALSE, restrict_to_meetings |-> FALSE]

(***************************************************************************)
(* The program: one call at a time, its result discarded afterwards        *)
(***************************************************************************)
Idle ==
    /\ pc = "idle"
    /\ op = "none"
    /\ args = NoArgs
    /\ hits = <<>>
    /\ window = NoWindow
    /\ raised = FALSE

\* the module state after import: nothing loaded, no client
Fresh == client = "none" /\ loads = 0

Init ==
    /\ now \in Nows
    /\ metric \in {"ip", "l2"}
    /\ backend = "ok"
    /\ \/ resources = "ok" /\ index \in Indexes(metric)
       \/ resources = "missing" /\ index = <<>>
    /\ Fresh
    /\ Idle

\* One call of an entry point, o being what it computes from the index.
\* Unless the resolver raised first, search() calls load_resources(), which
\* raises when a file is missing (lines 102-103, 139), then embed_query(),
\* which creates the client on first use and raises when the backend cannot
\* be used (lines 48-64, 140).
Return(name, a, o) ==
    LET loaded   == ~o.raised /\ resources = "ok"
        embedded == loaded /\ backend = "ok"
    IN  /\ loads < MaxLoads
        /\ pc' = "done"
        /\ op' = name
        /\ args' = a
        /\ raised' = ~embedded
        /\ hits' = IF embedded THEN o.hits ELSE <<>>
        /\ window' = o.win
        /\ loads' = IF loaded THEN loads + 1 ELSE loads
        /\ client' = IF embedded THEN "ready" ELSE client
        /\ UNCHANGED env

SearchCall ==
    /\ pc = "idle"
    /\ \E q \in SearchQueries, k \in Ks :
        Return("search", [NoArgs EXCEPT !.query = q, !.k = k],
               Outcome(FALSE, NoWindow, search(index, k)))

SearchMeetingsCall ==
    /\ pc = "idle"
    /\ \E q \in SearchQueries, k \in Ks :
        Return("search_meetings", [NoArgs EXCEPT !.query = q, !.k = k],
               Outcome(FALSE, NoWindow, search_meetings(index, q, k, now, metric)))

SearchInDateWindowCall ==
    /\ pc = "idle"
    /\ \E q \in SearchQueries, k \in Ks, w \in Windows :
        Return("search_in_date_window",
               [NoArgs EXCEPT !.query = q, !.k = k, !.start = w.start, !.end = w.end],
               Outcome(FALSE, NoWindow,
                       search_in_date_window(index, q, w.start, w.end, k, now, metric)))

AnswerCall ==
    /\ pc = "idle"
    /\ \E q \in AnswerQueries, k \in Ks, r \in BOOLEAN :
        Return("answer",
               [NoArgs EXCEPT !.query = q, !.k = k, !.restrict_to_meetings = r],
               answer(index, q, k, r, now, metric))

Discard ==
    /\ pc = "done"
    /\ pc' = "idle"
    /\ op' = "none"
    /\ args' = NoArgs
    /\ hits' = <<>>
    /\ window' = NoWindow
    /\ raised' = FALSE
    /\ UNCHANGED <<env, proc>>

Next ==
    \/ SearchCall
    \/ SearchMeetingsCall
    \/ SearchInDateWindowCall
    \/ AnswerCall
    \/ Discard

Spec == Init /\ [][Next]_vars

(***************************************************************************)
(* The entry points under every configuration: _load_conf() takes the      *)
(* metric from config.json as it is written, the files may be missing and  *)
(* the embedding backend may be unusable                                   *)
(***************************************************************************)
SupportedMetrics == {"ip", "l2"}

ConfiguredMetrics == SupportedMetrics \cup {"cosine"}

ConfigIndexes(conf_metric) ==
    {rows \in Indexes(conf_metric) : Len(rows) < MaxIndex}

InitConfig ==
    /\ now \in Nows
    /\ metric \in ConfiguredMetrics
    /\ backend \in {"ok", "unavailable"}
    /\ \/ resources = "ok" /\ index \in ConfigIndexes(metric)
       \/ resources = "missing" /\ index = <<>>
    /\ Fresh
    /\ Idle

SpecConfig == InitConfig /\ [][Next]_vars

(***************************************************************************)
(* The resolver alone, over queries made of up to MaxPhrases phrases       *)
(***************************************************************************)
Phrases ==
    {<<Word("Today")>>, <<Word("yesterday")>>,
     <<Word("this"), Word("week")>>, <<Word("Last"), Word("week")>>,
     <<Word("this"), Word("month")>>, <<Word("last"), Word("month")>>,
     <<Word("january"), Year(2025)>>, <<Word("December"), Year(2024)>>,
     <<Word("february"), Year(2024)>>,
     <<Quarter("q", 1), Year(2025)>>, <<QuarterYear("Q", 4, "-", 2024)>>,
     <<Quarter("q", 5), Year(2025)>>,
     <<Word("from"), DateTok(2025, 1, 10), Word("to"), DateTok(2025, 1, 15)>>,
     <<Word("From"), DateTok(2025, 2, 1), Word("to"), DateTok(2025, 1, 1)>>,
     <<Word("from"), DateTok(2025, 1, 10), Word("to"), DateTok(2025, 2, 30)>>,
     <<Word("from"), DateTok(2025, 2, 30), Word("to"), DateTok(2025, 13, 1)>>,
     <<Word("budget")>>, <<Word("this")>>, <<Word("weekend")>>,
     <<Word("march")>>, <<Year(2025)>>, <<Quarter("Q", 2)>>}

RECURSIVE Concat(_)
Concat(ps) == IF ps = <<>> THEN <<>> ELSE Head(ps) \o Concat(Tail(ps))

Queries == {Concat(ps) : ps \in UNION {[1..n -> Phrases] : n \in 1..MaxPhrases}}

ResolveDays ==
    {Ymd2Ord(2025, 1, 13), Ymd2Ord(2025, 1, 15), Ymd2Ord(2025, 1, 19),
     Ymd2Ord(2025, 1, 1), Ymd2Ord(2024, 3, 1), Ymd2Ord(2025, 12, 31),
     Ymd2Ord(2025, 3, 31)}

ResolveNows == {DT(o, s) : o \in ResolveDays, s \in {0, 37800, EndOfDay}}

InitResolve ==
    /\ now \in ResolveNows
    /\ metric = "ip"
    /\ resources = "ok"
    /\ backend = "ok"
    /\ Fresh
    /\ index = <<>>
    /\ Idle

\* one call of the resolver on a query of the set Q
Resolve(Q) ==
    /\ pc = "idle"
    /\ \E q \in Q :
        LET r == resolve_date_window_from_query(q, now)
        IN  /\ pc' = "done"
            /\ op' = "resolve_date_window_from_query"
            /\ args' = [NoArgs EXCEPT !.query = q]
            /\ raised' = r.raised
            /\ window' = r.win
            /\ hits' = <<>>
            /\ UNCHANGED <<env, proc>>

ResolveCall == Resolve(Queries)

NextResolve ==
    \/ ResolveCall
    \/ Discard

SpecResolve == InitResolve /\ [][NextResolve]_vars

(***************************************************************************)
(* The resolver rule by rule: every quarter, month, separator and pair of  *)
(* dates, alone or between other words, over days that make the months and *)
(* years roll over                                                         *)
(***************************************************************************)
RuleYears == {1999, 2024, 2025}

Separators == {"-", "/", ""}

QuarterPhrases ==
    {<<Quarter(cap, n), Year(y)>> : cap \in {"q", "Q"}, n \in 1..4, y \in RuleYears}
    \cup
    {<<QuarterYear(cs[1], n, cs[2], y)>> :
        cs \in {"q", "Q"} \X Separators, n \in 1..4, y \in RuleYears}

MonthPhrases ==
    {<<Word(_MONTHS[m]), Year(y)>> : m \in 1..12, y \in RuleYears}
    \cup {<<Word("December"), Year(2024)>>}

RelativePhrases ==
    {<<Word("Today")>>, <<Word("today")>>,
     <<Word("Yesterday")>>, <<Word("yesterday")>>,
     <<Word("This"), Word("month")>>, <<Word("this"), Word("month")>>,
     <<Word("Last"), Word("month")>>, <<Word("last"), Word("month")>>}

RuleDates ==
    {DateTok(2025, 1, 1), DateTok(2024, 2, 29), DateTok(2025, 12, 31),
     DateTok(2025, 2, 29)}

RangePhrases ==
    {<<Word(f), d[1], Word("to"), d[2]>> :
        f \in {"from", "From"}, d \in RuleDates \X RuleDates}

RulePhrases == QuarterPhrases \cup MonthPhrases \cup RelativePhrases \cup RangePhrases

RuleQueries ==
    {pre \o p \o post :
        pre \in {<<>>, <<Word("Budget")>>},
        p \in RulePhrases,
        post \in {<<>>, <<Word("review")>>, <<Word("today")>>}}

RuleDays ==
    {Ymd2Ord(2025, 1, 1), Ymd2Ord(2025, 1, 15), Ymd2Ord(2024, 3, 1),
     Ymd2Ord(2025, 3, 31), Ymd2Ord(2025, 5, 10), Ymd2Ord(2025, 11, 5),
     Ymd2Ord(2025, 12, 31)}

RuleNows == {DT(o, s) : o \in RuleDays, s \in {0, 37800, EndOfDay}}

InitRules ==
    /\ now \in RuleNows
    /\ metric = "ip"
    /\ resources = "ok"
    /\ backend = "ok"
    /\ Fresh
    /\ index = <<>>
    /\ Idle

RuleCall == Resolve(RuleQueries)

NextRules ==
    \/ RuleCall
    \/ Discard

SpecRules == InitRules /\ [][NextRules]_vars

(***************************************************************************)
(* The temporal filter alone                                               *)
(***************************************************************************)
FilterMetas ==
    {Meta("reminders", {}, md, vf, vt) :
        md \in {Absent, Iso(2025, 1, 20, 0), Iso(2025, 2, 5, 36000)},
        vf \in {Absent, Iso(2025, 1, 1, 0), Prefixed(2025, 2, 30)},
        vt \in {Absent, Iso(2025, 1, 31, 0), Junk}}
    \cup
    {Meta("meetings", {}, md, Absent, Absent) :
        md \in {Absent, Prefixed(2025, 1, 20), Iso(2025, 2, 5, 36000), Iso(2025, 2, 30, 0)}}

FilterPools == {[i \in DOMAIN f |-> Hit(i, 500, f[i])] : f \in Lists(FilterMetas, MaxFilterLen)}

FilterWindows ==
    Windows \cup {Window(Day(2025, 1, 31), At(2025, 2, 5, 36000))}

InitFilter ==
    /\ now \in {At(2025, 1, 15, 37800)}
    /\ metric = "ip"
    /\ resources = "ok"
    /\ backend = "ok"
    /\ Fresh
    /\ index = <<>>
    /\ Idle

FilterCall ==
    /\ pc = "idle"
    /\ \E pool \in FilterPools, w \in FilterWindows :
        /\ pc' = "done"
        /\ op' = "filter_by_date_range"
        /\ args' = [NoArgs EXCEPT !.pool = pool, !.start = w.start, !.end = w.end]
        /\ raised' = FALSE
        /\ window' = NoWindow
        /\ hits' = filter_by_date_range(pool, w.start, w.end)
        /\ UNCHANGED <<env, proc>>

NextFilter ==
    \/ FilterCall
    \/ Discard

SpecFilter == InitFilter /\ [][NextFilter]_vars

(***************************************************************************)
(* The reranker alone                                                      *)
(***************************************************************************)
NoteTagged == Meta("notes", {"budget", "review", " "}, Absent, Absent, Absent)

RerankMetas == {MeetingJan, MeetingMar, ReminderJan, ReminderDated, NoteTagged}

RerankPools ==
    {[i \in DOMAIN f |-> Hit(i, f[i][2], f[i][1])] :
        f \in Lists(RerankMetas \X Dists, MaxRerankLen)}

InitRerank ==
    /\ now \in Nows
    /\ metric \in {"ip", "l2"}
    /\ resources = "ok"
    /\ backend = "ok"
    /\ Fresh
    /\ index = <<>>
    /\ Idle

\* one call of rerank on a pool of the set Pools with a query of the set Qs
Rerank(Pools, Qs) ==
    /\ pc = "idle"
    /\ \E pool \in Pools, q \in Qs, pm \in BOOLEAN, pr \in BOOLEAN :
        /\ pc' = "done"
        /\ op' = "rerank"
        /\ args' = [NoArgs EXCEPT !.pool = pool, !.query = q,
                                  !.prefer_meetings = pm, !.prefer_recent = pr]
        /\ raised' = FALSE
        /\ window' = NoWindow
        /\ hits' = rerank(pool, q, pm, pr, now, metric)
        /\ UNCHANGED <<env, proc>>

RerankCall == Rerank(RerankPools, SearchQueries)

NextRerank ==
    \/ RerankCall
    \/ Discard

SpecRerank == InitRerank /\ [][NextRerank]_vars

(***************************************************************************)
(* rerank on pairs of candidates that carry every choice of tags           *)
(***************************************************************************)
TagChoices == {"Budget", " review", "to"}

TagMetas ==
    {Meta("meetings", tags, Iso(2025, 1, 14, 0), Absent, Absent) : tags \in SUBSET TagChoices}
    \cup
    {Meta("reminders", tags, Absent, Iso(2025, 1, 1, 0), Iso(2025, 1, 31, 0)) :
        tags \in SUBSET TagChoices}
    \cup
    {Meta("notes", tags, Absent, Absent, Absent) : tags \in SUBSET TagChoices}

TagPools ==
    {<<Hit(1, d[1], m[1]), Hit(2, d[2], m[2])>> :
        d \in Dists \X Dists, m \in TagMetas \X TagMetas}

QBudgetTo == <<Word("Budget"), Word("to"), Year(2025)>>

TagQueries == SearchQueries \cup {QBudgetTo}

TagCall == Rerank(TagPools, TagQueries)

NextTags ==
    \/ TagCall
    \/ Discard

SpecTags == InitRerank /\ [][NextTags]_vars

(***************************************************************************)
(* rerank on pairs of candidates over the raw values an index can return:  *)
(* an inner product of unit vectors lies in [-1, 1], a squared L2 distance *)
(* is any number >= 0                                                      *)
(***************************************************************************)
RawValues(conf_metric) ==
    IF conf_metric = "l2" THEN {0, 460, 825, 1500} ELSE {-200, 0, 460, 825}

BaseMetas == {EmptyMeta, ReminderJan}

BasePools(conf_metric) ==
    {<<Hit(1, d[1], m[1]), Hit(2, d[2], m[2])>> :
        d \in RawValues(conf_metric) \X RawValues(conf_metric),
        m \in BaseMetas \X BaseMetas}

BaseCall == Rerank(BasePools(metric), {QHello})

NextBase ==
    \/ BaseCall
    \/ Discard

SpecBase == InitRerank /\ [][NextBase]_vars

(***************************************************************************)
(* Properties                                                              *)
(***************************************************************************)
Called(name) == pc = "done" /\ op = name

Ids(seq) == {seq[i].id : i \in DOMAIN seq}

\* C1: each of search, search_meetings and search_in_date_window returns
\* at most k hits, for every query, every k >= 1 and every index content.
C1_AtMostK ==
    (pc = "done" /\ op \in {"search", "search_meetings", "search_in_date_window"})
        => Len(hits) <= args.k

\* an index with more rows than k, all at the same distance, cut to k by search
C1_Witness ==
    /\ Called("search")
    /\ Len(index) > args.k
    /\ \A i \in DOMAIN index : index[i].dist = index[1].dist
    /\ Len(hits) = args.k

\* the keep rule as the documentation states it: (a) an event date inside
\* the window, or (b) a validity interval, open-ended without valid_to,
\* that overlaps the window
StatedKeep(meta, start, end) ==
    LET md == _parse_iso(meta.meeting_date)
        vf == _parse_iso(meta.valid_from)
        vt == _parse_iso(meta.valid_to)
    IN  \/ ~IsNone(md) /\ DtLE(start, md) /\ DtLE(md, end)
        \/ /\ ~IsNone(vf)
           /\ DtLE(vf, end)
           /\ (IsNone(vt) \/ DtLE(start, vt))

ReminderJanuary == Meta("reminders", {}, Absent, Iso(2025, 1, 1, 0), Iso(2025, 1, 31, 0))

\* C2: filter_by_date_range keeps a candidate iff it has a meeting_date in
\* [start, end] or a valid_from with valid_from <= end and start <= valid_to
\* (absent valid_to = +infinity); the reminder valid 2025-01-01..2025-01-31
\* is kept for 2025-01-15..2025-02-01 and dropped for 2025-02-02..2025-02-10.
C2_FilterIff ==
    Called("filter_by_date_range") =>
        /\ \A j \in DOMAIN hits : hits[j].id \in DOMAIN args.pool /\ args.pool[hits[j].id] = hits[j]
        /\ \A i \in DOMAIN args.pool :
            (i \in Ids(hits)) <=> StatedKeep(args.pool[i].meta, args.start, args.end)
        /\ \A i \in DOMAIN args.pool :
            args.pool[i].meta = ReminderJanuary =>
                /\ (args.start = Day(2025, 1, 15) /\ args.end = Day(2025, 2, 1)) => i \in Ids(hits)
                /\ (args.start = Day(2025, 2, 2) /\ args.end = Day(2025, 2, 10)) => i \notin Ids(hits)

\* the January reminder kept for the overlapping window next to a dropped candidate
C2_Witness ==
    /\ Called("filter_by_date_range")
    /\ args.start = Day(2025, 1, 15) /\ args.end = Day(2025, 2, 1)
    /\ Len(args.pool) = 2
    /\ Len(hits) = 1
    /\ hits[1].meta = ReminderJanuary

\* the score rerank computed for a hit of the last call
ScoreOf(h) ==
    Score(h, _query_tags(args.query), args.prefer_meetings, args.prefer_recent, now, metric)

\* C3: rerank returns a permutation of its input, every hit's score >= the
\* score of the hit after it, equal scores in input order.
C3_RerankSorted ==
    Called("rerank") =>
        /\ Len(hits) = Len(args.pool)
        /\ Ids(hits) = Ids(args.pool)
        /\ \A j \in DOMAIN hits : args.pool[hits[j].id] = hits[j]
        /\ \A i \in DOMAIN hits : \A j \in DOMAIN hits :
            i < j => /\ ScoreOf(hits[i]) >= ScoreOf(hits[j])
                     /\ (ScoreOf(hits[i]) = ScoreOf(hits[j]) => hits[i].id < hits[j].id)

\* three candidates, two of them with equal scores, the order changed
C3_Witness ==
    /\ Called("rerank")
    /\ Len(hits) = 3
    /\ hits # args.pool
    /\ \E i \in 1..2 : ScoreOf(hits[i]) = ScoreOf(hits[i + 1])
    /\ \E i \in 1..2 : ScoreOf(hits[i]) > ScoreOf(hits[i + 1])

\* C4: every window resolve_date_window_from_query returns has start <= end.
C4_StartBeforeEnd ==
    (Called("resolve_date_window_from_query") /\ window.kind = "window")
        => DtLE(window.start, window.end)

\* C5: search_in_date_window returns an empty list, without raising and
\* without falling back to unfiltered results, when no fetched candidate
\* passes the temporal filter for [start, end].
C5_EmptyWindow ==
    (/\ Called("search_in_date_window")
     /\ resources = "ok"
     /\ \A i \in DOMAIN index : ~StatedKeep(index[i].meta, args.start, args.end))
        => hits = <<>> /\ ~raised

\* a window in 2099 against a non-empty index
C5_Witness ==
    /\ Called("search_in_date_window")
    /\ resources = "ok"
    /\ Len(index) >= 2
    /\ args.start = Day(2099, 1, 1)
    /\ hits = <<>>
    /\ ~raised

\* C6: resolve_date_window_from_query never raises, whatever the query.
C6_NeverRaises ==
    Called("resolve_date_window_from_query") => ~raised

\* the week of a datetime: its Monday at 00:00:00 to its Sunday at 23:59:59
WeekOf(dt) ==
    LET monday == dt.ord - ((dt.ord + 6) % 7)
    IN  Window(DT(monday, 0), DT(monday + 6, EndOfDay))

\* C7: "this week" resolves to Monday 00:00:00 .. Sunday 23:59:59 of the
\* current week, "last week" to the week of the instant 7 days earlier.
C7_WeekBounds ==
    LET ql == Lower(args.query)
    IN  (/\ Called("resolve_date_window_from_query")
         /\ ~InText1(ql, "today") /\ ~InText1(ql, "yesterday"))
            => /\ InText2(ql, "this", "week") => window = WeekOf(now)
               /\ (~InText2(ql, "this", "week") /\ InText2(ql, "last", "week"))
                    => window = WeekOf(MinusDays(now, 7))

\* the rules in the documented order and what each gives on its own
RuleMatches(n, ql) ==
    CASE n = 1 -> InText1(ql, "today")
      [] n = 2 -> InText1(ql, "yesterday")
      [] n = 3 -> InText2(ql, "this", "week")
      [] n = 4 -> InText2(ql, "last", "week")
      [] n = 5 -> InText2(ql, "this", "month")
      [] n = 6 -> InText2(ql, "last", "month")
      [] n = 7 -> MonthMatches(ql) # {}
      [] n = 8 -> QMatches(ql) # {}
      [] n = 9 -> RangeMatches(ql) # {}

RuleWindow(n, ql, dt) ==
    CASE n = 1 -> RuleToday(dt)
      [] n = 2 -> RuleYesterday(dt)
      [] n = 3 -> _week_bounds(dt)
      [] n = 4 -> _week_bounds(MinusDays(dt, 7))
      [] n = 5 -> _month_bounds(dt)
      [] n = 6 -> RuleLastMonth(dt)
      [] n = 7 -> RuleMonthName(ql)
      [] n = 8 -> RuleQuarter(ql)
      [] n = 9 -> RuleRange(ql).win

MatchingRules(q) == {n \in 1..9 : RuleMatches(n, Lower(q))}

\* C8: the rules are tried in the order today, yesterday, this week, last
\* week, this month, last month, month name, quarter, from/to: a query that
\* matches several gets the window of the earliest, one that matches none
\* gets none.
C8_FirstMatchWins ==
    Called("resolve_date_window_from_query") =>
        LET M == MatchingRules(args.query)
        IN  /\ M = {} => (~raised /\ window = NoWindow)
            /\ Cardinality(M) >= 2 =>
                /\ ~raised
                /\ window = RuleWindow(Leftmost(M), Lower(args.query), now)
            /\ (Cardinality(M) = 1 /\ ~raised) =>
                window = RuleWindow(Leftmost(M), Lower(args.query), now)

\* a query matching the month-name, quarter rules at once, resolved as the month
C8_Witness ==
    /\ Called("resolve_date_window_from_query")
    /\ MatchingRules(args.query) = {7, 8}
    /\ window = Window(Day(2025, 1, 1), DayEnd(2025, 1, 31))

IsBareReminder(meta) ==
    LowerFolder(meta.folder) = "reminders" /\ IsNone(_parse_iso(meta.valid_from))

\* C9 as stated: a reminder without valid_from is never kept by the
\* temporal filter, whatever else it carries.
C9_BareReminderNeverKept ==
    Called("filter_by_date_range") =>
        \A j \in DOMAIN hits : ~IsBareReminder(hits[j].meta)

\* C9 amended: a reminder without valid_from is kept exactly when it has a
\* meeting_date inside the window, never through a validity interval.
C9_BareReminderKeptByDateOnly ==
    Called("filter_by_date_range") =>
        \A i \in DOMAIN args.pool :
            IsBareReminder(args.pool[i].meta) =>
                LET md == _parse_iso(args.pool[i].meta.meeting_date)
                IN  (i \in Ids(hits)) <=>
                        (~IsNone(md) /\ DtLE(args.start, md) /\ DtLE(md, args.end))

\* a reminder with a valid_to but no valid_from and no meeting date in the window, dropped
C9_Witness ==
    /\ Called("filter_by_date_range")
    /\ Len(args.pool) = 1
    /\ IsBareReminder(args.pool[1].meta)
    /\ ~IsNone(_parse_iso(args.pool[1].meta.valid_to))
    /\ DtLE(args.start, _parse_iso(args.pool[1].meta.valid_to))
    /\ hits = <<>>

\* C10: the bonus magnitudes are ordered validity > category preference >
\* tag overlap > recency, for the recency bonus of every meeting date.
C10_BonusPriority ==
    Called("rerank") =>
        \A i \in DOMAIN args.pool :
            /\ ValidBonus > MeetingsBonus
            /\ MeetingsBonus > TagBonus
            /\ TagBonus > MeetBonus(args.pool[i].meta, TRUE)

SearchOps == {"search", "search_meetings", "search_in_date_window"}

FatalConfig ==
    \/ resources = "missing"
    \/ backend = "unavailable"
    \/ metric \notin SupportedMetrics

\* C11: under a fatal configuration (a missing index or metadata file, an
\* unusable embedding backend, a metric other than "ip" and "l2") every
\* search operation ends with an error, never with a hit list.
C11_FatalConfigRaises ==
    (pc = "done" /\ op \in SearchOps /\ FatalConfig) => raised

\* C12: in one process the index and the metadata table are loaded at most
\* once, whatever the sequence of calls.
C12_LoadedOnce == loads <= 1

\* the quarters written in a query, as <<n, year>>, with or without a
\* separator between the two
WrittenQuarters(q) ==
    {<<q[i].a, q[i + 1].a>> :
        i \in {j \in DOMAIN q : j + 1 \in DOMAIN q /\ q[j].kind = "q" /\ q[j + 1].kind = "year"}}
    \cup {<<q[i].a, q[i].b>> : i \in {j \in DOMAIN q : q[j].kind = "qy"}}

\* Q1 = Jan 1 - Mar 31, Q2 = Apr 1 - Jun 30, Q3 = Jul 1 - Sep 30,
\* Q4 = Oct 1 - Dec 31, from 00:00:00 to 23:59:59
StatedQuarter(n, y) ==
    CASE n = 1 -> Window(Day(y, 1, 1), DayEnd(y, 3, 31))
      [] n = 2 -> Window(Day(y, 4, 1), DayEnd(y, 6, 30))
      [] n = 3 -> Window(Day(y, 7, 1), DayEnd(y, 9, 30))
      [] n = 4 -> Window(Day(y, 10, 1), DayEnd(y, 12, 31))

\* a query with one quarter written in it and no rule of higher priority
QuarterCase(n, y) ==
    /\ Called("resolve_date_window_from_query")
    /\ WrittenQuarters(args.query) = {<<n, y>>}
    /\ \A r \in 1..7 : ~RuleMatches(r, Lower(args.query))

\* C13 as stated: "Q<n> <y>" resolves to the bounds of quarter n of year y
\* for every n in 1..4 and every 4-digit year y, whatever the separator.
C13_QuarterAnyYear ==
    \A n \in 1..4 : \A y \in RuleYears :
        QuarterCase(n, y) => (~raised /\ window = StatedQuarter(n, y))

\* C13 amended: "Q<n> <y>" resolves to the bounds of quarter n of year y for
\* every n in 1..4 and every year y written 20dd, whatever the separator;
\* with any other year the quarter rule does not apply.
C13_QuarterBounds ==
    \A n \in 1..4 : \A y \in RuleYears :
        QuarterCase(n, y) =>
            /\ y \in 2000..2099 => (~raised /\ window = StatedQuarter(n, y))
            /\ y \notin 2000..2099 => (~raised /\ window = NoWindow)

\* "budget Q42024 review", written without a separator, resolved as the
\* last quarter of 2024
C13_Witness ==
    /\ Called("resolve_date_window_from_query")
    /\ args.query = <<Word("Budget"), QuarterYear("Q", 4, "", 2024), Word("review")>>
    /\ window = Window(Day(2024, 10, 1), DayEnd(2024, 12, 31))

\* the last day of a month as the calendar has it
StatedLastDay(y, m) ==
    CASE m \in {1, 3, 5, 7, 8, 10, 12} -> 31
      [] m \in {4, 6, 9, 11} -> 30
      [] m = 2 /\ (y % 4 = 0 /\ (y % 100 # 0 \/ y % 400 = 0)) -> 29
      [] OTHER -> 28

\* the full calendar month: first day 00:00:00 to last day 23:59:59
StatedMonth(y, m) == Window(Day(y, m, 1), DayEnd(y, m, StatedLastDay(y, m)))

StatedPreviousMonth(y, m) ==
    IF m = 1 THEN StatedMonth(y - 1, 12) ELSE StatedMonth(y, m - 1)

\* the months written in a query with a year after them, as <<month, year>>
WrittenMonths(q) ==
    LET ql == Lower(q)
    IN  {<<MonthNum(ql[i].text), ql[i + 1].a>> :
            i \in {j \in DOMAIN ql :
                    j + 1 \in DOMAIN ql /\ IsMonthWord(ql[j]) /\ ql[j + 1].kind = "year"}}

\* the first rule that matches query q is the rule number n
FirstRule(n) ==
    /\ Called("resolve_date_window_from_query")
    /\ RuleMatches(n, Lower(args.query))
    /\ \A r \in 1..(n - 1) : ~RuleMatches(r, Lower(args.query))

\* "this month" and "last month" resolve to the full month of the current
\* instant and to the full month before it
RelativeMonths ==
    LET y == OrdYear(now.ord)
        m == OrdMonth(now.ord)
    IN  /\ FirstRule(5) => (~raised /\ window = StatedMonth(y, m))
        /\ FirstRule(6) => (~raised /\ window = StatedPreviousMonth(y, m))

\* a query with one month and year written in it and no rule of higher priority
MonthCase(m, y) ==
    /\ Called("resolve_date_window_from_query")
    /\ WrittenMonths(args.query) = {<<m, y>>}
    /\ \A r \in 1..6 : ~RuleMatches(r, Lower(args.query))

\* C14 as stated: "this month", "last month" and "<Month name> <year>", for
\* every 4-digit year, resolve to the full calendar month, first day
\* 00:00:00 to last day 23:59:59.
C14_MonthAnyYear ==
    /\ RelativeMonths
    /\ \A m \in 1..12 : \A y \in RuleYears :
        MonthCase(m, y) => (~raised /\ window = StatedMonth(y, m))

\* C14 amended: the same for "this month", "last month" and for
\* "<Month name> <year>" with a year written 20dd; with any other year the
\* month-name rule does not apply.
C14_MonthBounds ==
    /\ RelativeMonths
    /\ \A m \in 1..12 : \A y \in RuleYears :
        MonthCase(m, y) =>
            /\ y \in 2000..2099 => (~raised /\ window = StatedMonth(y, m))
            /\ y \notin 2000..2099 => (~raised /\ window = NoWindow)

\* "last month" asked in January 2025 gives December 2024
C14_Witness ==
    /\ FirstRule(6)
    /\ OrdYear(now.ord) = 2025 /\ OrdMonth(now.ord) = 1
    /\ window = Window(Day(2024, 12, 1), DayEnd(2024, 12, 31))

\* the pairs of dates written as "from <d1> to <d2>" in a query
WrittenRanges(q) ==
    LET ql == Lower(q)
    IN  {<<ql[i + 1], ql[i + 3]>> :
            i \in {j \in DOMAIN ql :
                    /\ j + 3 \in DOMAIN ql
                    /\ ql[j].kind = "word" /\ ql[j].text = "from"
                    /\ ql[j + 1].kind = "date"
                    /\ ql[j + 2].kind = "word" /\ ql[j + 2].text = "to"
                    /\ ql[j + 3].kind = "date"}}

\* YYYY-MM-DD names a day of the calendar
StatedValidDate(d) ==
    d.a \in 1..9999 /\ d.b \in 1..12 /\ d.c \in 1..StatedLastDay(d.a, d.b)

\* C15: "from <d1> to <d2>" with two valid dates, in a query matching no
\* rule of higher priority, resolves to exactly d1 at 00:00:00 and d2 at
\* 23:59:59.
C15_RangeBounds ==
    \A d1 \in RuleDates : \A d2 \in RuleDates :
        ( /\ Called("resolve_date_window_from_query")
          /\ WrittenRanges(args.query) = {<<d1, d2>>}
          /\ StatedValidDate(d1) /\ StatedValidDate(d2)
          /\ \A r \in 1..8 : ~RuleMatches(r, Lower(args.query)) )
        => /\ ~raised
           /\ window = Window(Day(d1.a, d1.b, d1.c), DayEnd(d2.a, d2.b, d2.c))

\* "From 2024-02-29 to 2025-12-31 review" resolved from the leap day to the
\* last second of 2025
C15_Witness ==
    /\ Called("resolve_date_window_from_query")
    /\ args.query = <<Word("From"), DateTok(2024, 2, 29), Word("to"),
                      DateTok(2025, 12, 31), Word("review")>>
    /\ ~raised
    /\ window = Window(Day(2024, 2, 29), DayEnd(2025, 12, 31))

\* the whole day numbered o: 00:00:00 to 23:59:59
StatedDay(o) == Window([ord |-> o, sec |-> 0], [ord |-> o, sec |-> 86399])

\* C16: a query containing "today" resolves to the current calendar day,
\* 00:00:00 to 23:59:59; one containing "yesterday" and not "today"
\* resolves to the day before, 00:00:00 to 23:59:59.
C16_TodayYesterday ==
    /\ FirstRule(1) => (~raised /\ window = StatedDay(now.ord))
    /\ FirstRule(2) => (~raised /\ window = StatedDay(now.ord - 1))

\* "Yesterday" asked on 2025-01-01 after midnight gives the whole of 2024-12-31
C16_Witness ==
    /\ FirstRule(2)
    /\ now = At(2025, 1, 1, 37800)
    /\ window = Window(Day(2024, 12, 31), DayEnd(2024, 12, 31))

\* C17: rerank applied to its own result, with the same query, flags,
\* current instant and metric, returns that result unchanged, element for
\* element.
C17_RerankIdempotent ==
    Called("rerank") =>
        rerank(hits, args.query, args.prefer_meetings, args.prefer_recent,
               now, metric) = hits

\* a pool that rerank reorders, two of its hits with equal scores, and the
\* second pass leaves the order of the first
C17_Witness ==
    /\ Called("rerank")
    /\ Len(hits) >= 2
    /\ hits[1].id # 1
    /\ \E i \in DOMAIN hits : \E j \in DOMAIN hits :
        i < j /\ ScoreOf(hits[i]) = ScoreOf(hits[j])
    /\ rerank(hits, args.query, args.prefer_meetings, args.prefer_recent,
              now, metric) = hits

\* how many tokens of the last query (alphanumeric runs of length >= 3,
\* case-folded) are among the tags of hit h
StatedOverlap(h) ==
    Cardinality({tok \in _query_tags(args.query) :
                    \E t \in h.meta.tags : StripLower(t) = tok})

\* equal in raw distance, folder and dates
SameButTags(g, h) ==
    /\ g.dist = h.dist
    /\ [g.meta EXCEPT !.tags = {}] = [h.meta EXCEPT !.tags = {}]

\* the place of the candidate numbered id in the result
PlaceOf(id) == CHOOSE p \in DOMAIN hits : hits[p].id = id

\* C18: of two candidates equal in raw distance, folder and dates, reranked
\* with the same flags, the one whose tags share at least as many tokens
\* with the query never has the lower score, and with more shared tokens it
\* comes first.
C18_TagOverlapMonotone ==
    Called("rerank") =>
        \A i \in DOMAIN args.pool : \A j \in DOMAIN args.pool :
            LET g == args.pool[i]
                h == args.pool[j]
            IN  (SameButTags(g, h) /\ StatedOverlap(g) >= StatedOverlap(h)) =>
                    /\ ScoreOf(g) >= ScoreOf(h)
                    /\ StatedOverlap(g) > StatedOverlap(h) =>
                        /\ ScoreOf(g) > ScoreOf(h)
                        /\ PlaceOf(g.id) < PlaceOf(h.id)

\* two reminders that differ in tags only, the second sharing two tokens with
\* the query and the first none, the second moved to the front
C18_Witness ==
    /\ Called("rerank")
    /\ Len(args.pool) = 2
    /\ SameButTags(args.pool[1], args.pool[2])
    /\ args.pool[1].meta.folder = "reminders"
    /\ StatedOverlap(args.pool[1]) = 0
    /\ StatedOverlap(args.pool[2]) = 2
    /\ hits = <<args.pool[2], args.pool[1]>>

\* C19: when answer is called with restrict_to_meetings, its hits are the
\* first k of a rerank that prefers the meetings folder, over the windowed
\* candidates when the question names a date window and over all the
\* candidates otherwise.
C19_RestrictPrefersMeetings ==
    (Called("answer") /\ args.restrict_to_meetings /\ ~raised) =>
        LET candidates ==
                IF window.kind = "window"
                THEN filter_by_date_range(search(index, Max(args.k, 200)),
                                          window.start, window.end)
                ELSE search(index, Max(args.k, 50))
        IN  hits = Take(rerank(candidates, args.query, TRUE, TRUE, now, metric),
                        args.k)

\* a reminder whose validity interval, given at both ends, contains the
\* current instant
CurrentlyValidReminder(h) ==
    LET vfrom == _parse_iso(h.meta.valid_from)
        vto   == _parse_iso(h.meta.valid_to)
    IN  /\ LowerFolder(h.meta.folder) = "reminders"
        /\ ~IsNone(vfrom) /\ ~IsNone(vto)
        /\ DtLE(vfrom, now) /\ DtLE(now, vto)

DatedNonReminder(h) ==
    /\ LowerFolder(h.meta.folder) # "reminders"
    /\ ~IsNone(_parse_iso(h.meta.meeting_date))

\* C20: with recency preferred, a currently valid reminder comes before a
\* record of another folder that carries a meeting date, whenever the two
\* have the same base similarity and the same tag overlap.
C20_ValidReminderFirst ==
    (Called("rerank") /\ args.prefer_recent) =>
        \A i \in DOMAIN hits : \A j \in DOMAIN hits :
            ( /\ CurrentlyValidReminder(hits[i])
              /\ DatedNonReminder(hits[j])
              /\ Base(hits[i].dist, metric) = Base(hits[j].dist, metric)
              /\ StatedOverlap(hits[i]) = StatedOverlap(hits[j]) )
            => i < j

\* the validity term as stated: for a reminder the bonus when the current
\* instant lies in [valid_from, valid_to], an absent valid_to being
\* +infinity, and the penalty otherwise, an absent valid_from being no
\* interval; nothing for another folder
StatedValidity(h) ==
    LET vfrom == _parse_iso(h.meta.valid_from)
        vto   == _parse_iso(h.meta.valid_to)
    IN  IF LowerFolder(h.meta.folder) # "reminders" THEN 0
        ELSE IF /\ ~IsNone(vfrom)
                /\ DtLE(vfrom, now)
                /\ (IsNone(vto) \/ DtLE(now, vto))
             THEN (20 * ScoreUnit) \div 100
             ELSE 0 - ((40 * ScoreUnit) \div 100)

\* the part of a hit's score that is neither base, tags, folder nor recency
ValidityTermOf(h) ==
    ScoreOf(h) - Base(h.dist, metric)
               - TagBonus * StatedOverlap(h)
               - FolderBonus(h.meta, args.prefer_meetings)
               - MeetBonus(h.meta, args.prefer_recent)

\* C21: in rerank a reminder gets the validity bonus if and only if the
\* current instant lies within [valid_from, valid_to] (absent valid_to =
\* +infinity) and the penalty in every other case, a missing valid_from
\* included; a record of another folder gets neither.
C21_ValidityBonusIff ==
    Called("rerank") =>
        \A i \in DOMAIN args.pool :
            ValidityTermOf(args.pool[i]) = StatedValidity(args.pool[i])

\* C22: the base term of every candidate lies in [0, 1] under both metrics,
\* whatever raw value the index returned; under ip a higher raw value gives
\* a higher base, under l2 a smaller distance gives a higher base.
C22_BaseBoundedMonotone ==
    Called("rerank") =>
        /\ \A i \in DOMAIN args.pool :
            /\ Base(args.pool[i].dist, metric) >= 0
            /\ Base(args.pool[i].dist, metric) <= ScoreUnit
        /\ \A i \in DOMAIN args.pool : \A j \in DOMAIN args.pool :
            /\ (metric = "ip" /\ args.pool[i].dist > args.pool[j].dist)
                => Base(args.pool[i].dist, metric) > Base(args.pool[j].dist, metric)
            /\ (metric = "l2" /\ args.pool[i].dist < args.pool[j].dist)
                => Base(args.pool[i].dist, metric) > Base(args.pool[j].dist, metric)

\* C23: every hit search_in_date_window returns is a row of the index, never
\* the sentinel, returned once and unchanged, and it has a meeting_date
\* inside [start, end] or a validity interval that overlaps it.
C23_WindowHitsFiltered ==
    Called("search_in_date_window") =>
        /\ \A j \in DOMAIN hits :
            /\ hits[j].id # -1
            /\ \E i \in DOMAIN index : index[i] = hits[j]
            /\ StatedKeep(hits[j].meta, args.start, args.end)
        /\ \A i \in DOMAIN hits : \A j \in DOMAIN hits :
            i # j => hits[i].id # hits[j].id

\* three rows fetched, the one outside the window left out and the other
\* two returned in an order that differs from the index order
C23_Witness ==
    /\ Called("search_in_date_window")
    /\ Len(index) = 3
    /\ Len(hits) = 2
    /\ \E i \in DOMAIN index : ~StatedKeep(index[i].meta, args.start, args.end)
    /\ \E i \in DOMAIN index : \E j \in DOMAIN index :
        i < j /\ hits = <<index[j], index[i]>>

====
